---- MODULE Spec2Model ----
(***************************************************************************)
(* A model of the simulation engine of ants_vs_some_bees.py: the place     *)
(* graph (Place / ColonyPlace), the insects (Bee, Harvester, Thrower,      *)
(* SuperThrower, MegaThrower, SuperHarvester) and GameState (place_ant,    *)
(* sacrifice_ant, take_turn).                                              *)
(*                                                                         *)
(* Objects are integers.  None is 0.  A place is a number of Places; an    *)
(* insect is a number of Insects, and insect[i] holds its fields.          *)
(***************************************************************************)
EXTENDS Integers, Sequences, FiniteSets, TLC

\* ------------------------------------------------------------------ bounds
\* take_turn is not called once turn_number has reached MaxTurns
MaxTurns == 3
\* number of Ant objects deepcopy can create in one behaviour
MaxAnts == 2
\* number of connect_to calls when a graph is built (SpecSearch)
MaxEdges == 3
\* number of act calls made on the insects of a world (SpecAct)
MaxActs == 3
\* number of add_insect and remove_insect calls made on the places (SpecPlace)
MaxCalls == 3

\* ------------------------------------------------------------------ objects
None == 0

\* The places of a world: GameState.places is the list <<1, 2, 3, 4>>.
Places == {1, 2, 3, 4}
places == <<1, 2, 3, 4>>

\* The archetype catalog handed to GameState: one archetype per Ant class,
\* built with the constructors' argument lists.  place is None (Insect.__init__).
Insect_new(cls, food_cost, health, damage, ammo, production, minimum_range, maximum_range, delay) ==
    [cls |-> cls, food_cost |-> food_cost, health |-> health, damage |-> damage,
     ammo |-> ammo, production |-> production,
     minimum_range |-> minimum_range, maximum_range |-> maximum_range,
     delay |-> delay, place |-> None]

Harvester(food_cost, health, production) ==
    Insect_new("Harvester", food_cost, health, 0, 0, production, 0, 0, 0)
Thrower(food_cost, health, damage, ammo, minimum_range, maximum_range) ==
    Insect_new("Thrower", food_cost, health, damage, ammo, 0, minimum_range, maximum_range, 0)
SuperHarvester(food_cost, health, production) ==
    Insect_new("SuperHarvester", food_cost, health, 0, 0, production, 0, 0, 0)
MegaThrower(food_cost, health, damage, ammo, minimum_range, maximum_range) ==
    Insect_new("MegaThrower", food_cost, health, damage, ammo, 0, minimum_range, maximum_range, 0)
SuperThrower(food_cost, health, damage, ammo, minimum_range, maximum_range) ==
    Insect_new("SuperThrower", food_cost, health, damage, ammo, 0, minimum_range, maximum_range, 0)
Bee(health, damage, delay) ==
    Insect_new("Bee", 0, health, damage, 0, 0, 0, 0, delay)

\* The shape of STANDARD_ANT_ARCHETYPES (same classes, same order, same
\* health and damage), with costs, ammunition and ranges scaled down so that
\* a few turns exhaust ammunition and food; the Thrower has minimum_range 1,
\* and the SuperThrower has a leaf left when it is first stung.
ant_archetypes ==
    << Harvester(1, 1, 1),
       Thrower(2, 1, 1, 1, 1, 2),
       SuperHarvester(2, 1, 2),
       MegaThrower(3, 2, 0, 2, 0, 2),
       SuperThrower(3, 2, 1, 2, 0, 2) >>

ArchetypeIds == 1..Len(ant_archetypes)
FirstBee == Len(ant_archetypes) + 1
SecondBee == Len(ant_archetypes) + 2
BeeIds == {FirstBee, SecondBee}
CopyIds == (Len(ant_archetypes) + 3)..(Len(ant_archetypes) + 2 + MaxAnts)
\* An Ant that is the defender of a ColonyPlace of another world
ForeignAnt == Len(ant_archetypes) + 3 + MaxAnts
ForeignPlace == Cardinality(Places) + 1
Insects == ArchetypeIds \cup BeeIds \cup CopyIds \cup {ForeignAnt}

\* An Insect object that has not been constructed yet.
Unborn == Insect_new("None", 0, 0, 0, 0, 0, 0, 0, 0)

AntClasses == {"Harvester", "Thrower", "SuperHarvester", "MegaThrower", "SuperThrower"}
ThrowerClasses == {"Thrower", "MegaThrower", "SuperThrower"}

VARIABLES
    sources,        \* Place.sources: place -> sequence of places
    destinations,   \* Place.destinations: place -> sequence of places
    isColony,       \* place -> TRUE for a ColonyPlace, FALSE for a plain Place
    queen_place,    \* GameState.queen_place
    bees,           \* Place.bees: place -> sequence of bees
    ant,            \* ColonyPlace.ant: place -> ant or None (None for a plain Place)
    insect,         \* the fields of every Insect object
    food,           \* GameState.food
    turn_number,    \* GameState.turn_number
    pc,             \* where control is: "idle", or inside take_turn ("ants", "bees"),
                    \* or building a world ("build")
    antQueue,       \* take_turn: the ants of `for ant in self.ants` still to act
    beeQueue,       \* take_turn: the bees of `for bee in self.bees` still to act
    actLog,         \* the insects that have acted in the running take_turn, in order
    result          \* what the last call returned or raised

vars == <<sources, destinations, isColony, queen_place, bees, ant, insect, food,
          turn_number, pc, antQueue, beeQueue, actLog, result>>

\* The mutable part of the world that the insects' methods read and write.
\* raised is the exception a method has raised ("" while none has): the
\* statements after a raise do not run.
NoError == ""
World == [bees |-> bees, ant |-> ant, insect |-> insect, food |-> food, raised |-> NoError]

isAnt(w, i) == w.insect[i].cls \in AntClasses
isBee(w, i) == w.insect[i].cls = "Bee"
isThrower(w, i) == w.insect[i].cls \in ThrowerClasses

\* ------------------------------------------------------------ sequences
SeqToSet(s) == {s[k] : k \in 1..Len(s)}

\* list.remove(x): drop the first occurrence of x
RECURSIVE ListRemove(_, _)
ListRemove(s, x) ==
    IF s = <<>> THEN <<>>
    ELSE IF Head(s) = x THEN Tail(s)
    ELSE <<Head(s)>> \o ListRemove(Tail(s), x)

\* ------------------------------------------------------------ Place
\* Place.defender / ColonyPlace.defender
defender(w, p) == IF isColony[p] THEN w.ant[p] ELSE None

\* Place.add_insect: a plain Place holds bees only, each at most once
Place_add_insect(w, p, i) ==
    IF w.raised # NoError THEN w
    ELSE IF ~isBee(w, i) THEN [w EXCEPT !.raised = "AssertionError"]
    ELSE IF i \in SeqToSet(w.bees[p]) THEN [w EXCEPT !.raised = "AssertionError"]
    ELSE [w EXCEPT !.bees[p] = Append(@, i), !.insect[i].place = p]

\* remove_insect that takes the first bee of the list, whichever it is
Place_remove_insect_first_bee(w, p, i) ==
    IF i \notin SeqToSet(w.bees[p]) THEN [w EXCEPT !.raised = "AssertionError"]
    ELSE [w EXCEPT !.bees[p] = Tail(@), !.insect[i].place = None]

\* Place.remove_insect
Place_remove_insect(w, p, i) ==
    IF w.raised # NoError THEN w
    ELSE IF i \notin SeqToSet(w.bees[p]) THEN [w EXCEPT !.raised = "AssertionError"]
    ELSE [w EXCEPT !.bees[p] = ListRemove(@, i), !.insect[i].place = None]

\* add_insect of a ColonyPlace in which a new Ant takes the place of the old
ColonyPlace_add_insect_replaces(w, p, i) ==
    IF isAnt(w, i)
    THEN [w EXCEPT !.ant[p] = i, !.insect[i].place = p]
    ELSE Place_add_insect(w, p, i)

\* ColonyPlace.add_insect: at most one Ant; bees as in a plain Place
ColonyPlace_add_insect(w, p, i) ==
    IF w.raised # NoError THEN w
    ELSE IF isAnt(w, i)
         THEN IF w.ant[p] # None THEN [w EXCEPT !.raised = "AssertionError"]
              ELSE [w EXCEPT !.ant[p] = i, !.insect[i].place = p]
         ELSE Place_add_insect(w, p, i)

\* ColonyPlace.remove_insect
ColonyPlace_remove_insect(w, p, i) ==
    IF w.raised # NoError THEN w
    ELSE IF isAnt(w, i)
         THEN IF i # w.ant[p] THEN [w EXCEPT !.raised = "AssertionError"]
              ELSE [w EXCEPT !.ant[p] = None, !.insect[i].place = None]
         ELSE Place_remove_insect(w, p, i)

\* dynamic dispatch of place.add_insect / place.remove_insect on the place's class
add_insect(w, p, i) ==
    IF isColony[p] THEN ColonyPlace_add_insect(w, p, i) ELSE Place_add_insect(w, p, i)
remove_insect(w, p, i) ==
    IF isColony[p] THEN ColonyPlace_remove_insect(w, p, i) ELSE Place_remove_insect(w, p, i)

\* ------------------------------------------------------------ Insect
\* reduce_health that removes the insect only when its health is below 0
reduce_health_below_zero(w, i, amount) ==
    LET w1 == [w EXCEPT !.insect[i].health = @ - amount]
    IN  IF w1.insect[i].health < 0 /\ w1.insect[i].place # None
        THEN remove_insect(w1, w1.insect[i].place, i)
        ELSE w1

\* Insect.reduce_health
reduce_health(w, i, amount) ==
    IF w.raised # NoError THEN w
    ELSE LET w1 == [w EXCEPT !.insect[i].health = @ - amount]
         IN  IF w1.insect[i].health <= 0 /\ w1.insect[i].place # None
             THEN remove_insect(w1, w1.insect[i].place, i)
             ELSE w1

\* Ant.blocks
blocks(w, i) == TRUE

\* ------------------------------------------------------------ Bee
\* fly that forgets to leave the place the bee is in
fly_without_leaving(w, i, destination) ==
    IF Len(destinations[w.insect[i].place]) > 0
    THEN [w EXCEPT !.bees[destination] = Append(@, i), !.insect[i].place = destination]
    ELSE w

\* fly of a bee that stings the defender of the place it arrives at
fly_stings_on_arrival(w, i, destination) ==
    LET p == w.insect[i].place
    IN  IF Len(destinations[p]) > 0
        THEN LET w1 == add_insect(remove_insect(w, p, i), destination, i)
             IN  IF defender(w1, destination) # None
                 THEN reduce_health(w1, defender(w1, destination), w1.insect[i].damage)
                 ELSE w1
        ELSE w

\* Bee.fly, where destination is what choice(self.place.destinations) returned
fly(w, i, destination) ==
    IF w.raised # NoError THEN w
    ELSE LET p == w.insect[i].place
         IN  IF Len(destinations[p]) > 0
             THEN add_insect(remove_insect(w, p, i), destination, i)
             ELSE w

\* Bee.act of a bee whose whole delay is over after one call
Bee_act_waits_once(w, i, destination) ==
    IF w.insect[i].delay > 0
    THEN [w EXCEPT !.insect[i].delay = 0]
    ELSE LET d == defender(w, w.insect[i].place)
         IN  IF d # None /\ blocks(w, d)
             THEN reduce_health(w, d, w.insect[i].damage)
             ELSE fly(w, i, destination)

\* Bee.act of a bee that flies on, to the first destination, after it has stung
Bee_act_stings_and_flies(w, i, destination) ==
    IF w.insect[i].delay > 0
    THEN [w EXCEPT !.insect[i].delay = @ - 1]
    ELSE LET p == w.insect[i].place
             d == defender(w, p)
         IN  IF d # None /\ blocks(w, d)
             THEN IF Len(destinations[p]) > 0
                  THEN fly(reduce_health(w, d, w.insect[i].damage), i, Head(destinations[p]))
                  ELSE reduce_health(w, d, w.insect[i].damage)
             ELSE fly(w, i, destination)

\* Bee.act
Bee_act(w, i, destination) ==
    IF w.raised # NoError THEN w
    ELSE IF w.insect[i].delay > 0
         THEN [w EXCEPT !.insect[i].delay = @ - 1]
    ELSE IF w.insect[i].place = None
         THEN [w EXCEPT !.raised = "AttributeError"]
    ELSE LET d == defender(w, w.insect[i].place)
         IN  IF d # None /\ blocks(w, d)
             THEN reduce_health(w, d, w.insect[i].damage)
             ELSE fly(w, i, destination)

\* ------------------------------------------------------------ Harvester
\* Harvester.act of a harvester that a bee at its place keeps from working
Harvester_act_unless_attacked(w, i) ==
    IF w.insect[i].place # None /\ Len(w.bees[w.insect[i].place]) > 0
    THEN w
    ELSE [w EXCEPT !.food = @ + w.insect[i].production]

\* Harvester.act
Harvester_act(w, i) ==
    IF w.raised # NoError THEN w
    ELSE [w EXCEPT !.food = @ + w.insect[i].production]

\* ------------------------------------------------------------ Thrower
\* targetable without the test of the candidate's class
targetable_any_place(w, i, candidate, distance) ==
    /\ w.insect[i].minimum_range <= distance
    /\ candidate # None
    /\ Len(w.bees[candidate]) > 0

\* The test of Thrower.target_place on a candidate popped from the worklist
targetable(w, i, candidate, distance) ==
    /\ w.insect[i].minimum_range <= distance
    /\ candidate # None
    /\ isColony[candidate]
    /\ Len(w.bees[candidate]) > 0

\* The loop of Thrower.target_place: worklist is a list of <<place, distance>>.
\* The result is the place returned and the distance it was popped with.
RECURSIVE target_place_loop(_, _, _, _)
target_place_loop(w, i, worklist, visited) ==
    IF Len(worklist) = 0
    THEN [place |-> None, distance |-> 0, raised |-> NoError]
    ELSE LET candidate == Head(worklist)[1]
             distance  == Head(worklist)[2]
             rest      == Tail(worklist)
         IN  IF targetable(w, i, candidate, distance)
             THEN [place |-> candidate, distance |-> distance, raised |-> NoError]
             ELSE IF candidate \notin visited
                  THEN IF distance + 1 <= w.insect[i].maximum_range
                       THEN IF candidate = None
                            THEN [place |-> None, distance |-> distance,
                                  raised |-> "AttributeError"]
                            ELSE target_place_loop(w, i,
                                   rest \o [k \in 1..Len(sources[candidate]) |->
                                              <<sources[candidate][k], distance + 1>>],
                                   visited \cup {candidate})
                       ELSE target_place_loop(w, i, rest, visited \cup {candidate})
                  ELSE target_place_loop(w, i, rest, visited)

\* Thrower.target_place, with the distance of the place found
target_place_found(w, i) ==
    IF w.insect[i].maximum_range < 0
    THEN [place |-> None, distance |-> 0, raised |-> NoError]
    ELSE target_place_loop(w, i, << <<w.insect[i].place, 0>> >>, {})

\* Thrower.target_place (Ant.target_place for the other ants)
target_place(w, i) ==
    IF isThrower(w, i) THEN target_place_found(w, i).place ELSE None

\* Thrower._in_range_bee_finder: found is [visited_places, found_bees] as
\* they stand when the call is made; the result is the pair it returns.  (The
\* sets a call returns hold all that the sets it was given held, so the
\* search is a depth-first one with one set of visited places.)
RECURSIVE in_range_bee_finder(_, _, _, _, _)
RECURSIVE in_range_bee_sources(_, _, _, _, _)
in_range_bee_finder(w, i, root_place, root_distance, found) ==
    IF root_place \notin found.visited_places /\ root_place # None
    THEN in_range_bee_sources(w, i, sources[root_place], root_distance,
           [visited_places |-> found.visited_places \cup {root_place},
            found_bees |->
               IF /\ w.insect[i].minimum_range <= root_distance
                  /\ root_distance <= w.insect[i].maximum_range
               THEN found.found_bees \cup SeqToSet(w.bees[root_place])
               ELSE found.found_bees])
    ELSE found

\* the loop `for source in sources` of _in_range_bee_finder
in_range_bee_sources(w, i, srcs, root_distance, found) ==
    IF srcs = <<>> THEN found
    ELSE in_range_bee_sources(w, i, Tail(srcs), root_distance,
           in_range_bee_finder(w, i, Head(srcs), root_distance + 1, found))

\* Thrower.in_range_bees (Ant.in_range_bees for the other ants)
in_range_bees(w, i) ==
    IF isThrower(w, i)
    THEN in_range_bee_finder(w, i, w.insect[i].place, 0,
                             [visited_places |-> {}, found_bees |-> {}]).found_bees
    ELSE {}

\* _hit_bee of a leaf that does one more damage than the thrower's
hit_bee_harder(w, i, target_bee) == reduce_health(w, target_bee, w.insect[i].damage + 1)

\* Thrower.act of a thrower that stays when its ammunition is used up
Thrower_act_outlives_ammo(w, i, target_bee) ==
    IF target_bee # None
    THEN [reduce_health(w, target_bee, w.insect[i].damage) EXCEPT !.insect[i].ammo = @ - 1]
    ELSE w

\* Thrower._hit_bee
hit_bee(w, i, target_bee) == reduce_health(w, target_bee, w.insect[i].damage)

\* Thrower.act, where target_bee is what choice(target.bees) returned
\* (None when target_place is None)
Thrower_act(w, i, target_bee) ==
    IF w.raised # NoError THEN w
    ELSE IF target_place_found(w, i).raised # NoError
         THEN [w EXCEPT !.raised = target_place_found(w, i).raised]
    ELSE IF target_bee # None
         THEN LET w1 == hit_bee(w, i, target_bee)
                  w2 == [w1 EXCEPT !.insect[i].ammo = @ - 1]
              IN  IF w2.insect[i].ammo <= 0
                  THEN reduce_health(w2, i, w2.insect[i].health)
                  ELSE w2
         ELSE w

\* SuperThrower.act of a thrower that regains a leaf at any health
SuperThrower_act_regains_always(w, i, target_bee) ==
    Thrower_act([w EXCEPT !.insect[i].ammo = @ + 1], i, target_bee)

\* SuperThrower.act
SuperThrower_act(w, i, target_bee) ==
    IF w.raised # NoError THEN w
    ELSE Thrower_act(IF w.insect[i].health = 1
                     THEN [w EXCEPT !.insect[i].ammo = @ + 1]
                     ELSE w, i, target_bee)

\* the number of places of a list whose defender is an Ant
RECURSIVE surrounding_ants_count(_, _)
surrounding_ants_count(w, ps) ==
    IF ps = <<>> THEN 0
    ELSE (IF defender(w, Head(ps)) # None /\ isAnt(w, defender(w, Head(ps))) THEN 1 ELSE 0)
         + surrounding_ants_count(w, Tail(ps))

\* MegaThrower.act of a thrower that throws with the damage it has
MegaThrower_act_keeps_damage(w, i, target_bee) == Thrower_act(w, i, target_bee)

\* MegaThrower.act
MegaThrower_act(w, i, target_bee) ==
    IF w.raised # NoError THEN w
    ELSE IF w.insect[i].place = None THEN [w EXCEPT !.raised = "AttributeError"]
    ELSE Thrower_act([w EXCEPT !.insect[i].damage =
                         surrounding_ants_count(w, sources[w.insect[i].place])],
                     i, target_bee)

\* SuperHarvester.act of a harvester that harvests before it dies
SuperHarvester_act_harvests_first(w, i) ==
    LET going_to_die ==
            \A k \in 1..Len(sources[w.insect[i].place]) :
                LET d == defender(w, sources[w.insect[i].place][k])
                IN  ~(d # None /\ isThrower(w, d))
        w1 == Harvester_act(w, i)
    IN  IF going_to_die THEN reduce_health(w1, i, w1.insect[i].health) ELSE w1

\* SuperHarvester.act
SuperHarvester_act(w, i) ==
    IF w.raised # NoError THEN w
    ELSE IF w.insect[i].place = None THEN [w EXCEPT !.raised = "AttributeError"]
    ELSE LET going_to_die ==
                 \A k \in 1..Len(sources[w.insect[i].place]) :
                     LET d == defender(w, sources[w.insect[i].place][k])
                     IN  ~(d # None /\ isThrower(w, d))
         IN  IF going_to_die
             THEN reduce_health(w, i, w.insect[i].health)
             ELSE Harvester_act(w, i)

\* insect.act(game_state), dispatched on the insect's class; c is the value
\* that the call of random.choice inside it returns, if it makes one
act(w, i, c) ==
    CASE w.insect[i].cls = "Bee"            -> Bee_act(w, i, c)
      [] w.insect[i].cls = "Harvester"      -> Harvester_act(w, i)
      [] w.insect[i].cls = "Thrower"        -> Thrower_act(w, i, c)
      [] w.insect[i].cls = "SuperThrower"   -> SuperThrower_act(w, i, c)
      [] w.insect[i].cls = "MegaThrower"    -> MegaThrower_act(w, i, c)
      [] w.insect[i].cls = "SuperHarvester" -> SuperHarvester_act(w, i)

\* The values random.choice can return inside insect.act: a destination of
\* the bee's place when the bee flies (Bee.fly), a bee of the target place
\* when a thrower throws (Thrower._target_bee); None when choice is not called.
choices(w, i) ==
    IF isBee(w, i)
    THEN IF /\ w.insect[i].delay = 0
            /\ w.insect[i].place # None
            /\ defender(w, w.insect[i].place) = None
            /\ Len(destinations[w.insect[i].place]) > 0
         THEN SeqToSet(destinations[w.insect[i].place])
         ELSE {None}
    ELSE IF isThrower(w, i) /\ target_place(w, i) # None
         THEN SeqToSet(w.bees[target_place(w, i)])
         ELSE {None}

\* ------------------------------------------------------------ GameState
\* GameState.ants that lists every Ant object made so far, in a place or not
GameState_ants_ever_made(w) ==
    LET made == {i \in CopyIds : w.insect[i] # Unborn}
        upTo(n) == {i \in made : i <= n}
    IN  [k \in 1..Cardinality(made) |->
            CHOOSE i \in made : Cardinality(upTo(i)) = k]

\* GameState.ants: the defenders, in the order of GameState.places
RECURSIVE ants_of(_, _)
ants_of(w, ps) ==
    IF ps = <<>> THEN <<>>
    ELSE (IF defender(w, Head(ps)) # None THEN <<defender(w, Head(ps))>> ELSE <<>>)
         \o ants_of(w, Tail(ps))
GameState_ants(w) == ants_of(w, places)

\* GameState.bees: the bees of every place, in the order of GameState.places
RECURSIVE bees_of(_, _)
bees_of(w, ps) ==
    IF ps = <<>> THEN <<>> ELSE w.bees[Head(ps)] \o bees_of(w, Tail(ps))
GameState_bees(w) == bees_of(w, places)

\* deepcopy(ant_archetype): new is the object created
deepcopy(w, ant_archetype, new) ==
    [w EXCEPT !.insect[new] = w.insect[ant_archetype]]

\* a place_ant test that leaves out the comparison of the food with the cost
place_ant_rejects_on_credit(w, ant_archetype, place) ==
    IF ant_archetype = None THEN TRUE
    ELSE IF defender(w, place) # None THEN TRUE
    ELSE Len(w.bees[place]) > 0

\* The condition under which GameState.place_ant returns None at once
\* (`or` evaluates its operands from left to right and stops at the first true one)
place_ant_rejects(w, ant_archetype, place) ==
    IF ant_archetype = None THEN TRUE
    ELSE IF defender(w, place) # None THEN TRUE
    ELSE IF Len(w.bees[place]) > 0 THEN TRUE
    ELSE w.food < w.insect[ant_archetype].food_cost

\* place_ant that puts the archetype itself into the place
place_ant_places_archetype(w, ant_archetype, place, new) ==
    IF place_ant_rejects(w, ant_archetype, place)
    THEN [w |-> w, ret |-> None]
    ELSE LET w1 == [w EXCEPT !.food = @ - w.insect[ant_archetype].food_cost]
             w3 == add_insect(w1, place, ant_archetype)
         IN  IF w3.raised = NoError
             THEN [w |-> w3, ret |-> ant_archetype]
             ELSE [w |-> [w1 EXCEPT !.raised = w3.raised], ret |-> None]

\* place_ant with the debit moved before the checks of the place and the pool
place_ant_debits_first(w, ant_archetype, place, new) ==
    IF ant_archetype = None THEN [w |-> w, ret |-> None]
    ELSE LET w1 == [w EXCEPT !.food = @ - w.insect[ant_archetype].food_cost]
         IN  IF place_ant_rejects(w, ant_archetype, place)
             THEN [w |-> w1, ret |-> None]
             ELSE LET w3 == add_insect(deepcopy(w1, ant_archetype, new), place, new)
                  IN  [w |-> w3, ret |-> IF w3.raised = NoError THEN new ELSE None]

\* GameState.place_ant: the world after the call and the value returned
place_ant(w, ant_archetype, place, new) ==
    IF place_ant_rejects(w, ant_archetype, place)
    THEN [w |-> w, ret |-> None]
    ELSE LET w1 == [w EXCEPT !.food = @ - w.insect[ant_archetype].food_cost]
             w2 == deepcopy(w1, ant_archetype, new)
             w3 == add_insect(w2, place, new)
         IN  IF w3.raised = NoError
             THEN [w |-> w3, ret |-> new]
             ELSE \* add_insect raised: nothing refers to the copy any more
                  [w |-> [w1 EXCEPT !.raised = w3.raised], ret |-> None]

\* sacrifice_ant that gives the ant's cost back
sacrifice_ant_refunds(w, a) ==
    IF a = None THEN w
    ELSE IF w.insect[a].place = None THEN [w EXCEPT !.raised = "AssertionError"]
    ELSE IF ~(\E p \in Places : defender(w, p) = a)
         THEN [w EXCEPT !.raised = "AssertionError"]
    ELSE [reduce_health(w, a, w.insect[a].health) EXCEPT !.food = @ + w.insect[a].food_cost]

\* sacrifice_ant that kills the ant before it looks for it in the world
sacrifice_ant_kills_first(w, a) ==
    IF a = None THEN w
    ELSE IF w.insect[a].place = None THEN [w EXCEPT !.raised = "AssertionError"]
    ELSE IF ~(\E p \in Places : defender(w, p) = a)
         THEN [w EXCEPT !.insect[a].health = 0, !.insect[a].place = None,
                        !.raised = "AssertionError"]
    ELSE reduce_health(w, a, w.insect[a].health)

\* GameState.sacrifice_ant
sacrifice_ant(w, a) ==
    IF a = None THEN w
    ELSE IF w.insect[a].place = None THEN [w EXCEPT !.raised = "AssertionError"]
    ELSE IF ~(\E p \in Places : defender(w, p) = a)
         THEN [w EXCEPT !.raised = "AssertionError"]
    ELSE reduce_health(w, a, w.insect[a].health)

\* take_turn_outcome that reports WIN as soon as the colony is free of bees
take_turn_outcome_colony_only(w) ==
    IF Len(w.bees[queen_place]) > 0 THEN "LOSS"
    ELSE IF \A p \in Places : isColony[p] => Len(w.bees[p]) = 0 THEN "WIN"
    ELSE "UNRESOLVED"

\* take_turn_outcome that reports LOSS only once every bee is at the queen
take_turn_outcome_loss_late(w) ==
    IF Len(w.bees[queen_place]) > 0 /\ Len(w.bees[queen_place]) = Len(GameState_bees(w))
    THEN "LOSS"
    ELSE IF Len(GameState_bees(w)) = 0 THEN "WIN"
    ELSE "UNRESOLVED"

\* The outcome take_turn decides on entry: LOSS, WIN, or the turn is played
take_turn_outcome(w) ==
    IF Len(w.bees[queen_place]) > 0 THEN "LOSS"
    ELSE IF Len(GameState_bees(w)) = 0 THEN "WIN"
    ELSE "UNRESOLVED"

\* ------------------------------------------------------------ actions
Result(op, a, outcome, raised) ==
    [op |-> op, ant |-> a, place |-> None, bees |-> {}, outcome |-> outcome, raised |-> raised]

\* the Ant object the next deepcopy creates (None when the model has no more)
NewAnt ==
    IF \E i \in CopyIds : insect[i] = Unborn
    THEN CHOOSE i \in CopyIds : insect[i] = Unborn /\ \A j \in CopyIds : insect[j] = Unborn => i <= j
    ELSE None

SetWorld(w) ==
    /\ bees' = w.bees
    /\ ant' = w.ant
    /\ insect' = w.insect
    /\ food' = w.food

\* a call of game_state.place_ant(ant_archetype, place)
PlaceAnt(ant_archetype, place) ==
    /\ pc = "idle"
    /\ IF place_ant_rejects(World, ant_archetype, place) THEN TRUE ELSE NewAnt # None
    /\ LET r == place_ant(World, ant_archetype, place, NewAnt)
       IN  /\ SetWorld(r.w)
           /\ result' = Result("place_ant", r.ret, "", r.w.raised)
    /\ UNCHANGED <<sources, destinations, isColony, queen_place, turn_number, pc,
                   antQueue, beeQueue, actLog>>

\* a call of game_state.sacrifice_ant(a)
SacrificeAnt(a) ==
    /\ pc = "idle"
    /\ LET w == sacrifice_ant(World, a)
       IN  /\ SetWorld(w)
           /\ result' = Result("sacrifice_ant", None, "", w.raised)
    /\ UNCHANGED <<sources, destinations, isColony, queen_place, turn_number, pc,
                   antQueue, beeQueue, actLog>>

\* a call of game_state.take_turn() that returns LOSS or WIN at once
TakeTurnOver ==
    /\ pc = "idle"
    /\ turn_number < MaxTurns
    /\ take_turn_outcome(World) # "UNRESOLVED"
    /\ turn_number' = turn_number + 1
    /\ result' = Result("take_turn", None, take_turn_outcome(World), NoError)
    /\ UNCHANGED <<sources, destinations, isColony, queen_place, bees, ant, insect, food,
                   pc, antQueue, beeQueue, actLog>>

\* a call of game_state.take_turn() that plays a turn: up to `for ant in self.ants`
TakeTurnBegin ==
    /\ pc = "idle"
    /\ turn_number < MaxTurns
    /\ take_turn_outcome(World) = "UNRESOLVED"
    /\ turn_number' = turn_number + 1
    /\ antQueue' = GameState_ants(World)
    /\ pc' = "ants"
    /\ actLog' = <<>>
    /\ UNCHANGED <<sources, destinations, isColony, queen_place, bees, ant, insect, food,
                   beeQueue, result>>

\* the end of a take_turn in which an insect's act raised
Abort(w) ==
    /\ pc' = "idle"
    /\ antQueue' = <<>>
    /\ beeQueue' = <<>>
    /\ actLog' = <<>>
    /\ result' = Result("take_turn", None, "", w.raised)

\* one iteration of `for ant in self.ants: ant.act(self)`
AntActs ==
    /\ pc = "ants"
    /\ antQueue # <<>>
    /\ \E c \in choices(World, Head(antQueue)) :
          LET w == act(World, Head(antQueue), c)
          IN  /\ SetWorld(w)
              /\ IF w.raised # NoError
                 THEN Abort(w)
                 ELSE /\ antQueue' = Tail(antQueue)
                      /\ actLog' = Append(actLog, Head(antQueue))
                      /\ UNCHANGED <<pc, beeQueue, result>>
    /\ UNCHANGED <<sources, destinations, isColony, queen_place, turn_number>>

\* the bees' loop run over every bee of the game, in a place or not
bees_to_act_every_bee(w) == <<FirstBee, SecondBee>>

\* The bees that the bees' loop iterates over: self.bees, read when the
\* ants' loop is over
bees_to_act(w) == GameState_bees(w)

\* the ants' loop is over: `for bee in self.bees` evaluates self.bees
BeesBegin ==
    /\ pc = "ants"
    /\ antQueue = <<>>
    /\ beeQueue' = bees_to_act(World)
    /\ pc' = "bees"
    /\ UNCHANGED <<sources, destinations, isColony, queen_place, bees, ant, insect, food,
                   turn_number, antQueue, actLog, result>>

\* a bees' loop that walks the places as they are when it gets to them: a
\* bee that has flown to a place later in GameState.places is met again
BeeActs_meets_movers_again ==
    /\ pc = "bees"
    /\ beeQueue # <<>>
    /\ \E c \in choices(World, Head(beeQueue)) :
          LET b == Head(beeQueue)
              w == act(World, b, c)
              later == w.insect[b].place # None /\ insect[b].place # None
                       /\ w.insect[b].place < queen_place
                       /\ w.insect[b].place > insect[b].place
          IN  /\ SetWorld(w)
              /\ IF w.raised # NoError
                 THEN Abort(w)
                 ELSE /\ beeQueue' = IF later THEN beeQueue ELSE Tail(beeQueue)
                      /\ actLog' = Append(actLog, b)
                      /\ UNCHANGED <<pc, antQueue, result>>
    /\ UNCHANGED <<sources, destinations, isColony, queen_place, turn_number>>

\* one iteration of `for bee in self.bees: bee.act(self)`
BeeActs ==
    /\ pc = "bees"
    /\ beeQueue # <<>>
    /\ \E c \in choices(World, Head(beeQueue)) :
          LET w == act(World, Head(beeQueue), c)
          IN  /\ SetWorld(w)
              /\ IF w.raised # NoError
                 THEN Abort(w)
                 ELSE /\ beeQueue' = Tail(beeQueue)
                      /\ actLog' = Append(actLog, Head(beeQueue))
                      /\ UNCHANGED <<pc, antQueue, result>>
    /\ UNCHANGED <<sources, destinations, isColony, queen_place, turn_number>>

\* a take_turn that decides the outcome again when the bees' loop is over
TakeTurnEnd_decides_again ==
    /\ pc = "bees"
    /\ beeQueue = <<>>
    /\ pc' = "idle"
    /\ actLog' = <<>>
    /\ result' = Result("take_turn", None, take_turn_outcome(World), NoError)
    /\ UNCHANGED <<sources, destinations, isColony, queen_place, bees, ant, insect, food,
                   turn_number, antQueue, beeQueue>>

\* the bees' loop is over: take_turn returns UNRESOLVED
TakeTurnEnd ==
    /\ pc = "bees"
    /\ beeQueue = <<>>
    /\ pc' = "idle"
    /\ actLog' = <<>>
    /\ result' = Result("take_turn", None, "UNRESOLVED", NoError)
    /\ UNCHANGED <<sources, destinations, isColony, queen_place, bees, ant, insect, food,
                   turn_number, antQueue, beeQueue>>

\* ------------------------------------------------------------ the game
\* Place.connect_to: g holds the destinations and the sources of every place
connect_to(g, from, to) ==
    [destinations |-> [g.destinations EXCEPT ![from] = Append(@, to)],
     sources      |-> [g.sources EXCEPT ![to] = Append(@, from)]]

\* Place.connect_to applied to a list of <<from, to>> pairs, in order
RECURSIVE connect_all(_, _)
connect_all(g, edges) ==
    IF edges = <<>> THEN g
    ELSE connect_all(connect_to(g, Head(edges)[1], Head(edges)[2]), Tail(edges))

NoEdges == [destinations |-> [p \in Places |-> <<>>], sources |-> [p \in Places |-> <<>>]]

\* A world in the manner of make_standard_game: a hive Place (1) leading to
\* an entrance, two ColonyPlaces (2, 3) of one ring, each connected to its
\* ring neighbour and to the queen's Place (4).
GameGraph == connect_all(NoEdges, << <<1, 2>>, <<2, 3>>, <<2, 4>>, <<3, 2>>, <<3, 4>> >>)

\* The bees a world starts with: a first bee, ready to act, in the hive or
\* already at the entrance, and a second one in the hive that waits for
\* wave.delay turns.
Waves == {[place |-> 2, bee_health |-> 1, delay |-> 0],
          [place |-> 1, bee_health |-> 2, delay |-> 2]}
\* the food argument of GameState
StartingFood == 4

Init ==
    /\ sources = GameGraph.sources
    /\ destinations = GameGraph.destinations
    /\ isColony = [p \in Places |-> p \in {2, 3}]
    /\ queen_place = 4
    /\ \E wave \in Waves :
         insect = [i \in Insects |->
                     IF i \in ArchetypeIds THEN ant_archetypes[i]
                     ELSE IF i = FirstBee THEN [Bee(wave.bee_health, 1, 0) EXCEPT !.place = wave.place]
                     ELSE IF i = SecondBee THEN [Bee(1, 1, wave.delay) EXCEPT !.place = 1]
                     ELSE IF i = ForeignAnt THEN [Harvester(1, 1, 1) EXCEPT !.place = ForeignPlace]
                     ELSE Unborn]
    /\ bees = [p \in Places |->
                 (IF p = insect[FirstBee].place THEN <<FirstBee>> ELSE <<>>)
                 \o (IF p = insect[SecondBee].place THEN <<SecondBee>> ELSE <<>>)]
    /\ ant = [p \in Places |-> None]
    /\ food = StartingFood
    /\ turn_number = 0
    /\ pc = "idle"
    /\ antQueue = <<>>
    /\ beeQueue = <<>>
    /\ actLog = <<>>
    /\ result = Result("init", None, "", NoError)

Next ==
    \/ \E a \in ArchetypeIds \cup {None}, p \in Places : PlaceAnt(a, p)
    \/ \E a \in CopyIds \cup ArchetypeIds \cup {None, ForeignAnt} : SacrificeAnt(a)
    \/ TakeTurnOver
    \/ TakeTurnBegin
    \/ AntActs
    \/ BeesBegin
    \/ BeeActs
    \/ TakeTurnEnd

Spec == Init /\ [][Next]_vars

\* ------------------------------------------------------------ range search
\* The worlds of the doctests of Thrower: places that a sequence of
\* connect_to calls links in any way (cycles, several paths, loops), a
\* Thrower in the first place, bees added to any places, and then a query.
SearchPlaces == {1, 2, 3}
SearchThrower == Len(ant_archetypes) + 3
\* the <<minimum_range, maximum_range>> the Thrower is constructed with
Ranges == {<<0, 0 - 1>>, <<0, 1>>, <<1, 1>>, <<1, 2>>, <<2, 2>>}

RECURSIVE SumLen(_, _)
SumLen(f, S) ==
    IF S = {} THEN 0 ELSE LET x == CHOOSE y \in S : TRUE IN Len(f[x]) + SumLen(f, S \ {x})

SearchInit ==
    /\ sources = NoEdges.sources
    /\ destinations = NoEdges.destinations
    /\ \E c \in BOOLEAN : isColony = [p \in Places |-> p \in {1, 2} \/ (p = 3 /\ c)]
    /\ queen_place = 4
    /\ \E r \in Ranges :
         insect = [i \in Insects |->
                     IF i \in ArchetypeIds THEN ant_archetypes[i]
                     ELSE IF i \in BeeIds THEN Bee(1, 1, 0)
                     ELSE IF i = SearchThrower
                          THEN [Thrower(0, 1, 1, 2, r[1], r[2]) EXCEPT !.place = 1]
                     ELSE Unborn]
    /\ bees = [p \in Places |-> <<>>]
    /\ ant = [p \in Places |-> IF p = 1 THEN SearchThrower ELSE None]
    /\ food = 0
    /\ turn_number = 0
    /\ pc = "build"
    /\ antQueue = <<>>
    /\ beeQueue = <<>>
    /\ actLog = <<>>
    /\ result = Result("init", None, "", NoError)

\* a call of from.connect_to(to) while the world is built
ConnectTo(from, to) ==
    /\ pc = "build"
    /\ SumLen(destinations, Places) < MaxEdges
    /\ LET g == connect_to([destinations |-> destinations, sources |-> sources], from, to)
       IN  /\ destinations' = g.destinations
           /\ sources' = g.sources
    /\ UNCHANGED <<isColony, queen_place, bees, ant, insect, food, turn_number, pc,
                   antQueue, beeQueue, actLog, result>>

\* a call of place.add_insect(bee) that populates the world, the bees in order
AddBee(place, b) ==
    /\ pc \in {"build", "populate"}
    /\ insect[b].place = None
    /\ b = SecondBee => insect[FirstBee].place # None
    /\ LET w == add_insect(World, place, b)
       IN  SetWorld(w)
    /\ pc' = "populate"
    /\ UNCHANGED <<sources, destinations, isColony, queen_place, turn_number,
                   antQueue, beeQueue, actLog, result>>

\* a read of thrower.target_place
TargetPlace(a) ==
    /\ pc \in {"build", "populate"}
    /\ pc' = "queried"
    /\ result' = [Result("target_place", a, "", target_place_found(World, a).raised)
                    EXCEPT !.place = target_place(World, a)]
    /\ UNCHANGED <<sources, destinations, isColony, queen_place, bees, ant, insect, food,
                   turn_number, antQueue, beeQueue, actLog>>

\* a read of thrower.in_range_bees
InRangeBees(a) ==
    /\ pc \in {"build", "populate"}
    /\ pc' = "queried"
    /\ result' = [Result("in_range_bees", a, "", NoError)
                    EXCEPT !.bees = in_range_bees(World, a)]
    /\ UNCHANGED <<sources, destinations, isColony, queen_place, bees, ant, insect, food,
                   turn_number, antQueue, beeQueue, actLog>>

SearchNext ==
    \/ \E from \in SearchPlaces, to \in SearchPlaces : ConnectTo(from, to)
    \/ \E place \in SearchPlaces, b \in BeeIds : AddBee(place, b)
    \/ TargetPlace(SearchThrower)
    \/ InRangeBees(SearchThrower)

SpecSearch == SearchInit /\ [][SearchNext]_vars

\* ------------------------------------------------------------ acts
\* The worlds of the doctests of Bee.act and Thrower.act: ColonyPlaces that
\* connect_to links in a line, in a fork or not at all, an ant in one of them
\* or in none, and bees, one of them perhaps delayed; act is called directly
\* on the bees and on the ant.
ActGraphs ==
    { <<>>,
      << <<2, 1>> >>,
      << <<3, 2>>, <<2, 1>> >>,
      << <<3, 2>>, <<3, 1>> >> }
ActAnt == Len(ant_archetypes) + 3
ActDelays == {0, 2}
\* the ant: one that only stands in the way, or a SuperThrower that reaches
\* its own place only, made with health 1 or 2
ActAnts == {Harvester(0, 2, 0), SuperThrower(0, 1, 1, 1, 0, 0), SuperThrower(0, 2, 1, 1, 0, 0)}

ActInit ==
    /\ \E edges \in ActGraphs :
         /\ sources = connect_all(NoEdges, edges).sources
         /\ destinations = connect_all(NoEdges, edges).destinations
    /\ isColony = [p \in Places |-> p \in SearchPlaces]
    /\ queen_place = 4
    /\ \E a \in SearchPlaces \cup {None}, p1 \in SearchPlaces,
          p2 \in SearchPlaces \cup {None}, d \in ActDelays :
         /\ \E made \in (IF a = None THEN {Unborn} ELSE ActAnts) :
              insect = [i \in Insects |->
                        IF i \in ArchetypeIds THEN ant_archetypes[i]
                        ELSE IF i = FirstBee THEN [Bee(1, 1, d) EXCEPT !.place = p1]
                        ELSE IF i = SecondBee THEN [Bee(1, 1, 0) EXCEPT !.place = p2]
                        ELSE IF i = ActAnt /\ a # None
                             THEN [made EXCEPT !.place = a]
                        ELSE Unborn]
         /\ ant = [p \in Places |-> IF p = a THEN ActAnt ELSE None]
    /\ bees = [p \in Places |->
                 (IF p = insect[FirstBee].place THEN <<FirstBee>> ELSE <<>>)
                 \o (IF p = insect[SecondBee].place THEN <<SecondBee>> ELSE <<>>)]
    /\ food = 0
    /\ turn_number = 0
    /\ pc = "act"
    /\ antQueue = <<>>
    /\ beeQueue = <<>>
    /\ actLog = <<>>
    /\ result = Result("init", None, "", NoError)

\* a call of bee.act(state), as in the doctests; actLog keeps the calls made
BeeAct(b) ==
    /\ pc = "act"
    /\ Len(actLog) < MaxActs
    /\ insect[b].place # None
    /\ \E c \in choices(World, b) :
          LET w == act(World, b, c)
          IN  /\ SetWorld(w)
              /\ result' = Result("act", b, "", w.raised)
    /\ actLog' = Append(actLog, b)
    /\ UNCHANGED <<sources, destinations, isColony, queen_place, turn_number, pc,
                   antQueue, beeQueue>>

\* a call of ant.act(state), as in the doctests
AntAct(a) ==
    /\ pc = "act"
    /\ Len(actLog) < MaxActs
    /\ insect[a].place # None
    /\ \E c \in choices(World, a) :
          LET w == act(World, a, c)
          IN  /\ SetWorld(w)
              /\ result' = Result("act", a, "", w.raised)
    /\ actLog' = Append(actLog, a)
    /\ UNCHANGED <<sources, destinations, isColony, queen_place, turn_number, pc,
                   antQueue, beeQueue>>

ActNext ==
    \/ \E b \in BeeIds : BeeAct(b)
    \/ AntAct(ActAnt)

SpecAct == ActInit /\ [][ActNext]_vars

\* ------------------------------------------------------------ places
\* Places on which add_insect and remove_insect are called directly, as in
\* the doctests: two ColonyPlaces and a plain Place, two Bees and two Ants
\* that start in no place.
OtherAnt == ActAnt + 1
PlaceInsects == BeeIds \cup {ActAnt, OtherAnt}

PlaceInit ==
    /\ sources = NoEdges.sources
    /\ destinations = NoEdges.destinations
    /\ isColony = [p \in Places |-> p \in {1, 2}]
    /\ queen_place = 4
    /\ insect = [i \in Insects |->
                   IF i \in ArchetypeIds THEN ant_archetypes[i]
                   ELSE IF i \in BeeIds THEN Bee(1, 1, 0)
                   ELSE IF i \in {ActAnt, OtherAnt} THEN Harvester(0, 1, 0)
                   ELSE Unborn]
    /\ bees = [p \in Places |-> <<>>]
    /\ ant = [p \in Places |-> None]
    /\ food = 0
    /\ turn_number = 0
    /\ pc = "place"
    /\ antQueue = <<>>
    /\ beeQueue = <<>>
    /\ actLog = <<>>
    /\ result = Result("init", None, "", NoError)

\* the world after a call that returned, the world as it was after one that
\* raised; actLog keeps the insects of the calls made
PlaceCall(op, place, i, w) ==
    /\ pc = "place"
    /\ Len(actLog) < MaxCalls
    /\ SetWorld(w)
    /\ result' = [Result(op, i, "", w.raised) EXCEPT !.place = place]
    /\ actLog' = Append(actLog, i)
    /\ UNCHANGED <<sources, destinations, isColony, queen_place, turn_number, pc,
                   antQueue, beeQueue>>

\* a call of place.add_insect(i)
AddInsect(place, i) == PlaceCall("add_insect", place, i, add_insect(World, place, i))

\* a call of place.remove_insect(i)
RemoveInsect(place, i) == PlaceCall("remove_insect", place, i, remove_insect(World, place, i))

PlaceNext ==
    \/ \E place \in SearchPlaces, i \in PlaceInsects : AddInsect(place, i)
    \/ \E place \in SearchPlaces, i \in PlaceInsects : RemoveInsect(place, i)

SpecPlace == PlaceInit /\ [][PlaceNext]_vars

\* ------------------------------------------------------------ properties
\* what a call leaves alone when it changes nothing in the world
WorldUnchanged == UNCHANGED <<bees, ant, insect, food>>

\* a step that is a call of take_turn (the call increments turn_number first)
TakeTurnCalled == pc = "idle" /\ turn_number' = turn_number + 1

\* the reasons for which place_ant is to return None
NoArchetype(a) == a = None
Defended(p) == ant[p] # None
Attacked(p) == bees[p] # <<>>
TooDear(a) == a # None /\ food < insect[a].food_cost
Rejectable(a, p) == NoArchetype(a) \/ Defended(p) \/ Attacked(p) \/ TooDear(a)

\* the calls of place_ant that can be made in the current state
PlaceAntCalls ==
    {c \in (ArchetypeIds \cup {None}) \X Places :
        pc = "idle" /\ (Rejectable(c[1], c[2]) \/ NewAnt # None)}

\* C1: whenever place_ant returns None (no archetype, the place has a
\* defender, the place holds a bee, or food is below the cost), the food,
\* every place's bees and defender and every insect are as before the call;
\* and it returns None in each of these four cases.
C1_RejectedPlaceAntChangesNothing ==
    \A c \in PlaceAntCalls :
        LET r == place_ant(World, c[1], c[2], NewAnt)
        IN  /\ Rejectable(c[1], c[2]) => (r.ret = None /\ r.w.raised = NoError)
            /\ (r.ret = None /\ r.w.raised = NoError)
                 => (r.w = World /\ Rejectable(c[1], c[2]))

\* C1 witness: place_ant has just returned None in a world where a place has
\* a defender, a place holds a bee and the food is below an archetype's cost.
C1_Witness ==
    /\ result.op = "place_ant" /\ result.ant = None /\ result.raised = NoError
    /\ \E p \in Places : ant[p] # None
    /\ \E p \in Places : isColony[p] /\ bees[p] # <<>>
    /\ \E a \in ArchetypeIds : food < insect[a].food_cost /\ food > 0

\* a step that is a call of place_ant
PlaceAntCalled == pc = "idle" /\ pc' = "idle" /\ result'.op = "place_ant"

\* C2: for every archetype and every place, plain places and the queen's
\* place included, place_ant either returns a new defender that is in the
\* place with the cost debited, or returns None with nothing changed; it
\* never raises, and it never debits food without placing a defender.
C2_PlaceAntPlacesOrRejects ==
    [][PlaceAntCalled =>
         /\ result'.raised = NoError
         /\ \/ /\ result'.ant # None
               /\ \E p \in Places : ant[p] = None /\ ant'[p] = result'.ant
                                      /\ insect'[result'.ant].place = p
               /\ food' = food - insect'[result'.ant].food_cost
            \/ /\ result'.ant = None
               /\ WorldUnchanged]_vars

\* C3: take_turn returns LOSS if the queen's place holds a bee when it is
\* called; otherwise WIN if no place holds a bee; otherwise it plays the
\* turn and returns UNRESOLVED; it returns nothing else.
C3_TakeTurnOutcome ==
    [][/\ TakeTurnCalled =>
            IF bees[queen_place] # <<>>
            THEN pc' = "idle" /\ result'.op = "take_turn" /\ result'.outcome = "LOSS"
            ELSE IF \A p \in Places : bees[p] = <<>>
            THEN pc' = "idle" /\ result'.op = "take_turn" /\ result'.outcome = "WIN"
            ELSE pc' = "ants"
       /\ (pc # "idle" /\ pc' = "idle" /\ result'.raised = NoError)
            => (result'.op = "take_turn" /\ result'.outcome = "UNRESOLVED")
       /\ result'.op = "take_turn"
            => (result'.raised = NoError /\ result'.outcome \in {"LOSS", "WIN", "UNRESOLVED"})]_vars

\* C3 witness: take_turn has returned WIN in a world that holds no bee, after
\* turns were played.
C3_Witness ==
    /\ result.op = "take_turn" /\ result.outcome = "WIN"
    /\ \A p \in Places : bees[p] = <<>>
    /\ turn_number >= 2

\* C4: take_turn called while the queen's place holds a bee returns LOSS and
\* no insect acts: the bees and the defender of every place, every insect's
\* fields and the food are as before the call.
C4_LossChangesNothing ==
    [][(TakeTurnCalled /\ bees[queen_place] # <<>>)
         => (/\ result'.op = "take_turn" /\ result'.outcome = "LOSS"
             /\ pc' = "idle"
             /\ WorldUnchanged)]_vars

\* C4 witness: take_turn has returned LOSS with a bee at the queen's place
\* while an ant and another bee that could have acted are in the colony.
C4_Witness ==
    /\ result.op = "take_turn" /\ result.outcome = "LOSS"
    /\ bees[queen_place] # <<>>
    /\ \E p \in Places : ant[p] # None
    /\ \E p \in Places : p # queen_place /\ bees[p] # <<>>

\* the insects of a sequence, and positions in it
Acted == SeqToSet(actLog)
Occurrences(s, x) == Cardinality({k \in 1..Len(s) : s[k] = x})

\* C5: within one take_turn every ant acts before every bee, and a bee
\* whose health an ant brought to 0 or below does not act in that turn: it
\* is not among the bees that act, and nothing of it changes any more.
C5_AntsThenSurvivingBees ==
    /\ \A j \in 1..Len(actLog), k \in 1..Len(actLog) :
          (j < k /\ isBee(World, actLog[j])) => isBee(World, actLog[k])
    /\ pc = "ants" => (beeQueue = <<>> /\ \A k \in 1..Len(actLog) : isAnt(World, actLog[k]))
    /\ pc = "bees" => antQueue = <<>>
    /\ \A k \in 1..Len(antQueue) : isAnt(World, antQueue[k])
    /\ \A k \in 1..Len(beeQueue) : isBee(World, beeQueue[k])
    /\ \A b \in BeeIds :
          insect[b].health <= 0 => (b \notin SeqToSet(beeQueue) /\ b \notin Acted)

\* C5 witness: in the first turn a thrower has acted and killed a bee, and
\* then the other bee has acted.
C5_Witness ==
    /\ pc = "bees" /\ turn_number = 1
    /\ \E a \in Acted : isThrower(World, a)
    /\ \E b \in BeeIds : insect[b].health <= 0 /\ insect[b].place = None
    /\ \E b \in BeeIds : b \in Acted

\* C6: every bee is in at most one place's list of bees, at most once, and
\* its place is that place, or None when it is in no list; every ant that a
\* place holds has that place as its place, and the place is a ColonyPlace;
\* an ant with a place is the defender of that place.
C6_PlaceReferencesAgree ==
    /\ \A b \in BeeIds :
          /\ Cardinality({p \in Places : b \in SeqToSet(bees[p])}) <= 1
          /\ \A p \in Places : Occurrences(bees[p], b) <= 1
          /\ \A p \in Places : b \in SeqToSet(bees[p]) => insect[b].place = p
          /\ insect[b].place # None => b \in SeqToSet(bees[insect[b].place])
    /\ \A p \in Places :
          /\ SeqToSet(bees[p]) \subseteq BeeIds
          /\ ant[p] # None =>
                (isColony[p] /\ isAnt(World, ant[p]) /\ insect[ant[p]].place = p)
    /\ \A a \in ArchetypeIds \cup CopyIds :
          insect[a].place # None => ant[insect[a].place] = a

\* C6 witness: after two turns a bee has flown twice and an ant is placed
C6_Witness ==
    /\ pc = "idle" /\ turn_number >= 2
    /\ \E b \in BeeIds : insect[b].place = 3
    /\ \E p \in Places : ant[p] # None

\* C7: an insect that has a place has health above 0; an insect whose
\* health is 0 or below is in no place.
C7_PlacedInsectsAreAlive ==
    \A i \in Insects :
        /\ insect[i].place # None => insect[i].health > 0
        /\ (insect[i].cls # "None" /\ insect[i].health <= 0) =>
              /\ insect[i].place = None
              /\ \A p \in Places : ant[p] # i /\ i \notin SeqToSet(bees[p])

\* C7 witness: a thrower whose ammunition ran out, a bee that a leaf killed
\* and a harvester that was stung or sacrificed, all with health 0 or below
\* and without a place.
C7_Witness ==
    /\ \E a \in CopyIds : isThrower(World, a) /\ insect[a].ammo = 0 /\ insect[a].health <= 0
                             /\ insect[a].place = None
    /\ \E b \in BeeIds : insect[b].health <= 0 /\ insect[b].place = None
    /\ \E a \in CopyIds : insect[a].cls = "Harvester" /\ insect[a].health <= 0

\* ------------------------------------------------------------ distances
\* the places that k or fewer source edges separate from root
RECURSIVE Within(_, _)
Within(root, k) ==
    IF k = 0 THEN {root}
    ELSE LET S == Within(root, k - 1)
         IN  S \cup {q \in Places : \E p \in S : q \in SeqToSet(sources[p])}

Unreachable == 0 - 1
\* the hop distance of p from root: the fewest source edges from root to p
HopDistance(root, p) ==
    IF p \notin Within(root, Cardinality(Places)) THEN Unreachable
    ELSE CHOOSE k \in 0..Cardinality(Places) :
           p \in Within(root, k) /\ \A j \in 0..(k - 1) : p \notin Within(root, j)

\* the places reached from root along source edges only
Upstream(root) == Within(root, Cardinality(Places))

\* p is in the range of thrower a: its hop distance from a's place lies
\* between a's minimum_range and maximum_range
InRange(a, p) ==
    /\ HopDistance(insect[a].place, p) # Unreachable
    /\ insect[a].minimum_range <= HopDistance(insect[a].place, p)
    /\ HopDistance(insect[a].place, p) <= insect[a].maximum_range

\* p qualifies as a target of thrower a
Qualifies(a, p) == isColony[p] /\ bees[p] # <<>> /\ InRange(a, p)

\* the query of thrower a has just returned
Queried(a) == pc = "queried" /\ result.op = "target_place" /\ result.ant = a

\* C8: the place target_place returns is at a hop distance from the
\* thrower's place that is at least minimum_range and at most maximum_range,
\* the distance counted in source edges; it is never a place that only
\* destination edges reach.
C8_TargetWithinRange ==
    \A a \in CopyIds :
        (Queried(a) /\ result.place # None) =>
            /\ result.place \in Upstream(insect[a].place)
            /\ InRange(a, result.place)

\* What does hold of the place target_place returns: source edges lead to
\* it, and its hop distance is at most maximum_range (the minimum_range side
\* fails where a cycle leads back to a place that is too near).
TargetNeverBeyondMaximumRange ==
    \A a \in CopyIds :
        (Queried(a) /\ result.place # None) =>
            /\ result.place \in Upstream(insect[a].place)
            /\ HopDistance(insect[a].place, result.place) <= insect[a].maximum_range

\* the places in the order in which a breadth-first traversal from root
\* along the sources lists discovers them: level is the list of the places
\* discovered last, seen the set of all places discovered so far
RECURSIVE NewSources(_, _)
NewSources(ps, seen) ==
    IF ps = <<>> THEN <<>>
    ELSE IF Head(ps) \in seen THEN NewSources(Tail(ps), seen)
    ELSE <<Head(ps)>> \o NewSources(Tail(ps), seen \cup {Head(ps)})
RECURSIVE Flatten(_)
Flatten(ss) == IF ss = <<>> THEN <<>> ELSE Head(ss) \o Flatten(Tail(ss))
RECURSIVE Discovery(_, _)
Discovery(level, seen) ==
    IF level = <<>> THEN <<>>
    ELSE LET next == NewSources(Flatten([k \in 1..Len(level) |-> sources[level[k]]]), seen)
         IN  level \o Discovery(next, seen \cup SeqToSet(next))
DiscoveryOrder(root) == Discovery(<<root>>, {root})

\* the first place in discovery order that qualifies, None if none does
NearestQualifying(a) ==
    LET order == DiscoveryOrder(insect[a].place)
        hits  == {k \in 1..Len(order) : Qualifies(a, order[k])}
    IN  IF hits = {} THEN None
        ELSE order[CHOOSE k \in hits : \A j \in hits : k <= j]

\* C9: target_place returns the nearest place that qualifies (a ColonyPlace
\* with a bee at a hop distance within the range), the first in breadth-first
\* discovery order among those at the same distance; None if no place
\* qualifies; None if maximum_range is below 0.
C9_TargetIsNearestQualifying ==
    \A a \in CopyIds :
        Queried(a) =>
            /\ result.raised = NoError
            /\ result.place = NearestQualifying(a)
            /\ insect[a].maximum_range < 0 => result.place = None
            /\ result.place # None =>
                  \A q \in Places :
                      Qualifies(a, q) =>
                          HopDistance(insect[a].place, q)
                             >= HopDistance(insect[a].place, result.place)

\* What does hold: whenever the answer is None or a place in range, it is
\* the nearest qualifying place.
NearestQualifyingUnlessTooNear ==
    \A a \in CopyIds :
        (Queried(a) /\ (result.place = None \/ InRange(a, result.place))) =>
            result.place = NearestQualifying(a)

\* C10: the place target_place returns is a ColonyPlace that holds a bee.
C10_TargetIsColonyPlaceWithBee ==
    \A a \in CopyIds :
        (Queried(a) /\ result.place # None) =>
            (isColony[result.place] /\ Len(bees[result.place]) > 0)

\* C10 witness: target_place has returned a ColonyPlace with a bee although
\* a plain Place with a bee is in range and nearer.
C10_Witness ==
    /\ Queried(SearchThrower) /\ result.place # None
    /\ \E p \in Places :
          /\ ~isColony[p] /\ bees[p] # <<>> /\ InRange(SearchThrower, p)
          /\ HopDistance(1, p) < HopDistance(1, result.place)

\* ------------------------------------------------------------ in_range_bees
\* the read of in_range_bees of thrower a has just returned
InRangeQueried(a) == pc = "queried" /\ result.op = "in_range_bees" /\ result.ant = a

\* the bees at places whose hop distance from a's place is within a's range
BeesInRange(a) ==
    {b \in BeeIds : insect[b].place # None /\ InRange(a, insect[b].place)}

\* C11: in_range_bees of a placed thrower is the set of the bees at places
\* whose hop distance from the thrower's place (fewest source edges, 0 for
\* its own place) is at least minimum_range and at most maximum_range.
C11_InRangeBeesAreBeesAtHopDistanceInRange ==
    \A a \in CopyIds :
        (InRangeQueried(a) /\ insect[a].place # None) => result.bees = BeesInRange(a)

\* What does hold: a bee in the result is at a place that source edges reach
\* from the thrower's place over some path whose length is within the range,
\* so its hop distance is at most maximum_range.
InRangeBeesNeverBeyondMaximumRange ==
    \A a \in CopyIds :
        InRangeQueried(a) =>
            \A b \in result.bees :
                /\ insect[b].place \in Upstream(insect[a].place)
                /\ HopDistance(insect[a].place, insect[b].place) <= insect[a].maximum_range

\* C12: every bee of in_range_bees is in a ColonyPlace; a bee in a plain
\* Place is not in the result, also when the place is within the range.
C12_InRangeBeesAreInColonyPlaces ==
    \A a \in CopyIds :
        InRangeQueried(a) => \A b \in result.bees : isColony[insect[b].place]

\* ------------------------------------------------------------ Bee.act
\* the step, if one is taken, is bee b's act: in the bees' loop of
\* take_turn, or called directly
BeeActing(b) ==
    \/ pc = "bees" /\ beeQueue # <<>> /\ Head(beeQueue) = b
    \/ pc = "act" /\ actLog' = Append(actLog, b)

\* nothing but the fields of the insects of S changes
OnlyInsectsChange(S) ==
    /\ bees' = bees /\ ant' = ant /\ food' = food
    /\ \A i \in Insects \ S : insect'[i] = insect[i]

\* the wave whose second bee waits, known by the health of its first bee
\* while that bee is unhurt
SlowWave == CHOOSE wave \in Waves : wave.delay > 0
InSlowWave ==
    /\ insect[FirstBee].health = SlowWave.bee_health
    /\ \A wave \in Waves \ {SlowWave} : wave.bee_health < SlowWave.bee_health

\* C13: a bee with delay d > 0 that stays alive only has its delay
\* decremented by 1 in each of the next d take_turn calls that return
\* UNRESOLVED: it acts once in each of them, and its act changes nothing but
\* its delay (it neither moves nor stings); the delay is 0 after the d-th call
\* and never below 0; with no defender at its place and a destination it
\* moves for the first time in call d + 1.
C13_DelayedBeeWaits ==
    /\ [](\A b \in BeeIds : insect[b].delay >= 0)
    /\ [](pc = "bees" =>
            \A b \in BeeIds :
                insect[b].place # None =>
                    Occurrences(actLog, b) + Occurrences(beeQueue, b) = 1)
    /\ []((pc = "idle" /\ InSlowWave /\ bees[queen_place] = <<>>) =>
            /\ insect[SecondBee].delay =
                  IF turn_number < SlowWave.delay THEN SlowWave.delay - turn_number ELSE 0
            /\ turn_number <= SlowWave.delay => insect[SecondBee].place = SlowWave.place
            /\ turn_number > SlowWave.delay => insect[SecondBee].place # SlowWave.place)
    /\ [][\A b \in BeeIds :
            /\ (BeeActing(b) /\ insect[b].delay > 0) =>
                  /\ insect' = [insect EXCEPT ![b].delay = insect[b].delay - 1]
                  /\ OnlyInsectsChange({b})
            /\ insect'[b].delay # insect[b].delay => (BeeActing(b) /\ insect[b].delay > 0)
            /\ (/\ BeeActing(b) /\ insect[b].delay = 0
                 /\ ant[insect[b].place] = None
                 /\ destinations[insect[b].place] # <<>>) =>
                  /\ insect'[b].place \in SeqToSet(destinations[insect[b].place])
                  /\ insect'[b].place # insect[b].place]_vars

\* C13 witness: in the wave whose second bee waits, three turns have been
\* played; the second bee has waited out its delay and has then moved from
\* the hive to the entrance.
C13_Witness ==
    /\ pc = "idle" /\ InSlowWave /\ bees[queen_place] = <<>>
    /\ turn_number = SlowWave.delay + 1
    /\ insect[SecondBee].delay = 0
    /\ insect[SecondBee].place \in SeqToSet(destinations[SlowWave.place])

\* C14: a bee with delay 0 whose place holds a defender reduces the
\* defender's health by the bee's damage and does not move: the bee, the bees
\* of every place and every other insect are as before; the defender loses
\* its place only when its health has come to 0 or below.
C14_BlockedBeeStingsAndStays ==
    [][\A b \in BeeIds :
          (/\ BeeActing(b) /\ insect[b].delay = 0
           /\ ant[insect[b].place] # None) =>
             LET p == insect[b].place
                 d == ant[p]
             IN  /\ insect'[d].health = insect[d].health - insect[b].damage
                 /\ insect'[b] = insect[b]
                 /\ bees' = bees
                 /\ food' = food
                 /\ \A i \in Insects \ {d} : insect'[i] = insect[i]
                 /\ \A q \in Places \ {p} : ant'[q] = ant[q]
                 /\ IF insect'[d].health > 0
                    THEN insect' = [insect EXCEPT ![d].health = @ - insect[b].damage]
                         /\ ant'[p] = d
                    ELSE insect' = [insect EXCEPT ![d].health = @ - insect[b].damage,
                                                  ![d].place = None]
                         /\ ant'[p] = None]_vars

\* C14 witness: a bee has acted in this turn at a place whose defender,
\* constructed with health 2, has been stung and has health 1.
C14_Witness ==
    /\ pc = "bees"
    /\ \E b \in BeeIds, a \in CopyIds :
          /\ b \in Acted
          /\ insect[b].place # None /\ ant[insect[b].place] = a
          /\ insect[a].cls \in {"MegaThrower", "SuperThrower"}
          /\ insect[a].health = 1

\* C15: a bee with delay 0 whose place has no defender moves to one of the
\* destinations of its place: it leaves the bees of the old place, joins
\* those of the new one, its place is the new one, and nothing else changes
\* (a defender at the destination keeps its health); if its place has no
\* destinations nothing changes at all.
C15_UnblockedBeeFlies ==
    [][\A b \in BeeIds :
          (/\ BeeActing(b) /\ insect[b].delay = 0
           /\ ant[insect[b].place] = None) =>
             LET p == insect[b].place
                 q == insect'[b].place
             IN  /\ ant' = ant
                 /\ food' = food
                 /\ IF destinations[p] = <<>>
                    THEN insect' = insect /\ bees' = bees
                    ELSE /\ q \in SeqToSet(destinations[p])
                         /\ insect' = [insect EXCEPT ![b].place = q]
                         /\ bees' = [[bees EXCEPT ![p] = ListRemove(@, b)]
                                        EXCEPT ![q] = Append(@, b)]
                         /\ b \notin SeqToSet(bees'[p]) \/ q = p]_vars

\* C15 witness: the second bee has acted once and has flown into a place
\* whose defender still has the health it was made with, and the first bee,
\* not delayed, has acted once in a place without defender and without
\* destinations, where it still is.
C15_Witness ==
    /\ pc = "act"
    /\ Occurrences(actLog, SecondBee) = 1 /\ Occurrences(actLog, FirstBee) = 1
    /\ LET q == insect[SecondBee].place
       IN  /\ q # None /\ ant[q] = ActAnt /\ insect[ActAnt].health = 2
           /\ sources[q] # <<>>
    /\ LET r == insect[FirstBee].place
       IN  /\ insect[FirstBee].delay = 0
           /\ ant[r] = None /\ destinations[r] = <<>>

\* ------------------------------------------------------------ Thrower.act
\* the step, if one is taken, is ant a's act: in the ants' loop of
\* take_turn, or called directly
AntActing(a) ==
    \/ pc = "ants" /\ antQueue # <<>> /\ Head(antQueue) = a
    \/ pc = "act" /\ actLog' = Append(actLog, a)

\* the ammunition a SuperThrower gains before it acts
Regained(a) == IF insect[a].cls = "SuperThrower" /\ insect[a].health = 1 THEN 1 ELSE 0

\* C16: when a thrower acts and target_place is None, nothing changes (no
\* bee is damaged, no ammunition is consumed); otherwise exactly one bee, one
\* of target_place, loses health equal to the thrower's damage, the thrower's
\* ammunition decreases by exactly 1, and a bee brought to health 0 or below
\* leaves its place and has no place any more.  (A MegaThrower's damage is
\* the one it has set for this act, a SuperThrower's ammunition the one
\* after what it has regained.)
C16_ThrowerHitsOneBeeOfTargetPlace ==
    [][\A a \in CopyIds :
          (AntActing(a) /\ isThrower(World, a)) =>
             LET t == target_place(World, a)
                 p == insect[a].place
             IN  /\ food' = food
                 /\ \A i \in Insects \ (BeeIds \cup {a}) : insect'[i] = insect[i]
                 /\ \A q \in Places \ {p} : ant'[q] = ant[q]
                 /\ insect[a].cls # "MegaThrower" => insect'[a].damage = insect[a].damage
                 /\ IF t = None
                    THEN /\ bees' = bees /\ ant' = ant
                         /\ \A b \in BeeIds : insect'[b] = insect[b]
                         /\ insect'[a].ammo = insect[a].ammo + Regained(a)
                         /\ insect'[a].health = insect[a].health
                         /\ insect'[a].place = insect[a].place
                         /\ insect[a].cls = "Thrower" => insect'[a] = insect[a]
                    ELSE /\ insect'[a].ammo = insect[a].ammo + Regained(a) - 1
                         /\ \E b \in SeqToSet(bees[t]) :
                               /\ insect[b].place = t
                               /\ insect'[b].health = insect[b].health - insect'[a].damage
                               /\ \A c \in BeeIds \ {b} : insect'[c] = insect[c]
                               /\ \A q \in Places \ {t} : bees'[q] = bees[q]
                               /\ IF insect'[b].health <= 0
                                  THEN /\ insect'[b].place = None
                                       /\ bees'[t] = ListRemove(bees[t], b)
                                       /\ b \notin SeqToSet(bees'[t])
                                  ELSE /\ insect'[b].place = t
                                       /\ bees'[t] = bees[t]]_vars

\* C16 witness: in the first turn a Thrower, the first ant to act, has thrown
\* its leaf at a bee, which has health 0 and no place any more.
C16_Witness ==
    /\ pc = "ants" /\ turn_number = 1 /\ Len(actLog) = 1
    /\ insect[actLog[1]].cls = "Thrower"
    /\ insect[actLog[1]].ammo = 0
    /\ \E b \in BeeIds : insect[b].health = 0 /\ insect[b].place = None

\* C17: a thrower whose throw leaves its ammunition at 0 or below has, after
\* the same act, health 0 and no place, and its place has no defender; a
\* thrower that throws and has ammunition left, or does not throw, keeps its
\* health and its place.
C17_ThrowerDiesWithItsLastLeaf ==
    [][\A a \in CopyIds :
          (AntActing(a) /\ isThrower(World, a)) =>
             LET p == insect[a].place
                 thrown == target_place(World, a) # None
             IN  IF thrown /\ insect'[a].ammo <= 0
                 THEN /\ insect'[a].ammo = insect[a].ammo + Regained(a) - 1
                      /\ insect'[a].health = 0
                      /\ insect'[a].place = None
                      /\ ant'[p] = None
                 ELSE /\ insect'[a].health = insect[a].health
                      /\ insect'[a].place = p
                      /\ ant'[p] = a]_vars

\* C17 witness: a MegaThrower, made with ammunition for two throws, has
\* acted last; it kept its place after the first throw and now, after the
\* second, it has ammunition 0, health 0 and no place.
C17_Witness ==
    /\ pc = "ants" /\ actLog # <<>>
    /\ LET a == actLog[Len(actLog)]
       IN  /\ insect[a].cls = "MegaThrower"
           /\ insect[a].ammo = 0 /\ insect[a].health = 0 /\ insect[a].place = None
           /\ \A p \in Places : ant[p] # a

\* ------------------------------------------------------------ archetypes
\* C18: a place_ant that returns an ant debits the food by exactly the
\* archetype's cost and puts into the place a new Ant, a copy of the
\* archetype with its own fields; the archetypes are never placed and never
\* change: in every state every archetype has no place and the health,
\* damage, ammunition and cost it was made with, whatever has happened to
\* its copies.
C18_PlaceAntCopiesTheArchetype ==
    /\ [](\A a \in ArchetypeIds :
             /\ insect[a] = ant_archetypes[a]
             /\ insect[a].place = None
             /\ \A p \in Places : ant[p] # a)
    /\ [][(PlaceAntCalled /\ result'.ant # None) =>
            LET new == result'.ant
                p   == insect'[new].place
            IN  /\ new \in CopyIds /\ insect[new] = Unborn
                /\ p \in Places /\ ant[p] = None /\ ant' = [ant EXCEPT ![p] = new]
                /\ bees' = bees
                /\ \E a \in ArchetypeIds :
                      /\ food' = food - ant_archetypes[a].food_cost
                      /\ insect' = [insect EXCEPT ![new] =
                                        [ant_archetypes[a] EXCEPT !.place = p]]]_vars

\* C18 witness: a copy of the MegaThrower archetype has acted and has a
\* damage that is not the archetype's, and a copy has health 0.
C18_Witness ==
    /\ \E c \in CopyIds, a \in ArchetypeIds :
          /\ insect[c].cls = "MegaThrower" /\ insect[a].cls = "MegaThrower"
          /\ insect[c].damage # insect[a].damage
    /\ \E c \in CopyIds : insect[c].cls # "None" /\ insect[c].health = 0

\* the calls of sacrifice_ant that can be made in the current state
SacrificeAntCalls ==
    {a \in CopyIds \cup ArchetypeIds \cup {None, ForeignAnt} : pc = "idle"}

\* C19: place_ant followed at once by sacrifice_ant of the ant returned
\* leaves the food at its value before the placement minus the archetype's
\* cost (sacrifice_ant gives nothing back and never changes the food), the
\* place without defender and the bees of every place as before.
C19_PlaceThenSacrifice ==
    /\ \A c \in PlaceAntCalls :
          LET r == place_ant(World, c[1], c[2], NewAnt)
              w == sacrifice_ant(r.w, r.ret)
          IN  r.ret # None =>
                /\ w.raised = NoError
                /\ w.food = food - insect[c[1]].food_cost
                /\ w.food = r.w.food
                /\ w.ant[c[2]] = None /\ w.ant = ant
                /\ w.bees = bees
                /\ w.insect[r.ret].place = None
    /\ \A a \in SacrificeAntCalls : sacrifice_ant(World, a).food = food

\* C19 witness: before any turn, an ant was placed and then sacrificed: the
\* food is the starting food minus its cost and no place has a defender.
C19_Witness ==
    /\ result.op = "sacrifice_ant" /\ result.raised = NoError /\ turn_number = 0
    /\ \E n \in CopyIds :
          /\ insect[n].cls # "None" /\ insect[n].health = 0 /\ insect[n].place = None
          /\ food = StartingFood - insect[n].food_cost
    /\ \A p \in Places : ant[p] = None

\* C20: sacrifice_ant(None) changes nothing; sacrifice_ant of an ant that is
\* the defender of a place of this world sets its health to 0 and takes it
\* out of its place, and changes nothing else; sacrifice_ant of an ant that
\* has no place (dead, or never placed) or whose place is in another world
\* raises AssertionError and changes nothing.
C20_SacrificeAnt ==
    \A a \in SacrificeAntCalls :
        LET w == sacrifice_ant(World, a)
        IN  IF a = None
            THEN w = World
            ELSE IF insect[a].place \in Places /\ ant[insect[a].place] = a
            THEN /\ w.raised = NoError
                 /\ w.insect = [insect EXCEPT ![a].health = 0, ![a].place = None]
                 /\ w.ant = [ant EXCEPT ![insect[a].place] = None]
                 /\ w.bees = bees /\ w.food = food
            ELSE /\ insect[a].place = None \/ insect[a].place \notin Places
                 /\ w = [World EXCEPT !.raised = "AssertionError"]

\* C20 witness: before any turn an ant was sacrificed, and now a call of
\* sacrifice_ant has raised AssertionError in a world that has a placed ant,
\* a dead one and knows of an ant placed in another world.
C20_Witness ==
    /\ result.op = "sacrifice_ant" /\ result.raised = "AssertionError" /\ turn_number = 0
    /\ \E n \in CopyIds : insect[n].cls # "None" /\ insect[n].health = 0
    /\ \E p \in Places : ant[p] # None
    /\ insect[ForeignAnt].place = ForeignPlace /\ insect[ForeignAnt].health > 0

\* ------------------------------------------------------------ add / remove
\* the calls of add_insect and remove_insect that can be made
PlaceCalls == {c \in SearchPlaces \X PlaceInsects : pc = "place"}

\* the world after a call that raised AssertionError and changed nothing
Aborted == [World EXCEPT !.raised = "AssertionError"]

\* C21: for every place and every bee that is not in it, add_insect(bee)
\* followed by remove_insect(bee) leaves the bees of the place as they were
\* before the add_insect, the same bees in the same order, and leaves the
\* bee without place.
C21_AddThenRemoveBee ==
    \A c \in PlaceCalls :
        (c[2] \in BeeIds /\ c[2] \notin SeqToSet(bees[c[1]])) =>
            LET added   == add_insect(World, c[1], c[2])
                removed == remove_insect(added, c[1], c[2])
            IN  /\ added.raised = NoError /\ removed.raised = NoError
                /\ added.bees[c[1]] = Append(bees[c[1]], c[2])
                /\ added.insect[c[2]].place = c[1]
                /\ removed.bees[c[1]] = bees[c[1]]
                /\ removed.insect[c[2]].place = None

\* C21 witness: a bee that was added to a place where another bee is has
\* been removed again: the other bee is still there, the bee has no place.
C21_Witness ==
    /\ result.op = "remove_insect" /\ result.raised = NoError
    /\ result.ant \in BeeIds
    /\ insect[result.ant].place = None
    /\ bees[result.place] # <<>>
    /\ \A p \in Places : result.ant \notin SeqToSet(bees[p])

\* C22: after any add_insect and remove_insect calls on ColonyPlaces that
\* did not raise, no ant is the defender of more than one place, and the
\* place of every ant is the one place that holds it.
C22_OneDefenderOnePlace ==
    /\ \A p \in Places, q \in Places :
          (ant[p] # None /\ ant[p] = ant[q]) => p = q
    /\ \A p \in Places : ant[p] # None => insect[ant[p]].place = p
    /\ \A a \in {ActAnt, OtherAnt} :
          insect[a].place # None => ant[insect[a].place] = a

\* What does hold: no ant is in a plain Place, and an ant with a place is
\* the defender of that place.
AntWithPlaceDefendsIt ==
    /\ \A p \in Places : ant[p] # None => isColony[p]
    /\ \A a \in {ActAnt, OtherAnt} :
          insect[a].place # None => ant[insect[a].place] = a

\* C23: add_insect of an ant to a plain Place, of an ant to a ColonyPlace
\* that has a defender, of a bee to a place it is in, and remove_insect of a
\* bee from a place it is not in and of an ant from a place whose defender
\* it is not, all raise AssertionError and leave the bees and the defender
\* of every place and the place of every insect as they were.
C23_MalformedCallsRaise ==
    \A c \in PlaceCalls :
        LET p == c[1]
            i == c[2]
        IN  /\ (isAnt(World, i) /\ ~isColony[p]) => add_insect(World, p, i) = Aborted
            /\ (isAnt(World, i) /\ isColony[p] /\ ant[p] # None)
                  => add_insect(World, p, i) = Aborted
            /\ (isBee(World, i) /\ i \in SeqToSet(bees[p]))
                  => add_insect(World, p, i) = Aborted
            /\ (isBee(World, i) /\ i \notin SeqToSet(bees[p]))
                  => remove_insect(World, p, i) = Aborted
            /\ (isAnt(World, i) /\ ant[p] # i) => remove_insect(World, p, i) = Aborted

\* C23 witness: add_insect of an ant has raised AssertionError at a
\* ColonyPlace that has another ant as its defender, and that one is still
\* there.
C23_Witness ==
    /\ result.op = "add_insect" /\ result.raised = "AssertionError"
    /\ result.ant \in {ActAnt, OtherAnt}
    /\ isColony[result.place]
    /\ ant[result.place] # None /\ ant[result.place] # result.ant
    /\ insect[ant[result.place]].place = result.place

\* ------------------------------------------------------------ the ants' acts
\* the source places of p, as positions in p's list of sources, whose
\* defender satisfies Is
SourcesDefendedBy(p, Is(_)) ==
    {k \in 1..Len(sources[p]) : ant[sources[p][k]] # None /\ Is(ant[sources[p][k]])}
IsThrowerNow(d) == isThrower(World, d)
IsAntNow(d) == isAnt(World, d)

\* C24: a SuperHarvester that acts while no source place of its place has a
\* Thrower (of any class) as defender, as the places are at that moment,
\* gets health 0, leaves its place and adds nothing to the food; otherwise it
\* adds exactly its production to the food and keeps its place and its
\* health.  Nothing else changes.
C24_SuperHarvesterNeedsAThrower ==
    [][\A a \in CopyIds :
          (AntActing(a) /\ insect[a].cls = "SuperHarvester") =>
             LET p == insect[a].place
             IN  /\ bees' = bees
                 /\ IF SourcesDefendedBy(p, IsThrowerNow) = {}
                    THEN /\ food' = food
                         /\ insect' = [insect EXCEPT ![a].health = 0, ![a].place = None]
                         /\ ant' = [ant EXCEPT ![p] = None]
                    ELSE /\ food' = food + insect[a].production
                         /\ insect' = insect
                         /\ ant' = ant]_vars

\* C24 witness: in one ants' loop a Thrower has acted first and has died
\* with its last leaf, and the SuperHarvester that acted after it has died
\* too.
C24_Witness ==
    /\ pc = "ants" /\ Len(actLog) = 2
    /\ isThrower(World, actLog[1])
    /\ insect[actLog[1]].health = 0 /\ insect[actLog[1]].place = None
    /\ insect[actLog[2]].cls = "SuperHarvester"
    /\ insect[actLog[2]].health = 0 /\ insect[actLog[2]].place = None

\* C25: in a take_turn that plays a turn each Harvester that has a place
\* when the turn begins acts once and adds exactly its production to the
\* food, whatever bees are at its place or elsewhere, and changes nothing
\* else; and the food changes within take_turn only by the act of a
\* Harvester or a SuperHarvester, by its production.
C25_HarvesterProduces ==
    /\ [](pc = "ants" =>
            \A a \in CopyIds :
                (insect[a].cls = "Harvester" /\ insect[a].place # None) =>
                    Occurrences(actLog, a) + Occurrences(antQueue, a) = 1)
    /\ [][/\ \A a \in CopyIds :
               (AntActing(a) /\ insect[a].cls = "Harvester") =>
                   /\ food' = food + insect[a].production
                   /\ bees' = bees /\ ant' = ant /\ insect' = insect
          /\ (food' # food /\ ~PlaceAntCalled) =>
               \E a \in CopyIds :
                   /\ AntActing(a)
                   /\ insect[a].cls \in {"Harvester", "SuperHarvester"}
                   /\ food' = food + insect[a].production]_vars

\* C25 witness: a Harvester has just acted with a bee at its place, and the
\* food is above what the game began with.
C25_Witness ==
    /\ pc = "ants" /\ actLog # <<>>
    /\ LET a == actLog[Len(actLog)]
       IN  /\ insect[a].cls = "Harvester"
           /\ insect[a].place # None /\ bees[insect[a].place] # <<>>
    /\ food >= StartingFood

\* C26: a MegaThrower that acts has, after the act, as its damage the
\* number of source places of its place that hold a defender at that moment,
\* whatever its damage was, and the bee it hits loses that much health; when
\* the number is 0 and there is a target it still throws: its ammunition
\* decreases by 1 and the bee keeps its health.
C26_MegaThrowerDamage ==
    [][\A a \in CopyIds :
          (AntActing(a) /\ insect[a].cls = "MegaThrower") =>
             LET p == insect[a].place
                 t == target_place(World, a)
                 n == Cardinality(SourcesDefendedBy(p, IsAntNow))
             IN  /\ insect'[a].damage = n
                 /\ IF t = None
                    THEN /\ insect'[a].ammo = insect[a].ammo
                         /\ \A b \in BeeIds : insect'[b] = insect[b]
                    ELSE /\ insect'[a].ammo = insect[a].ammo - 1
                         /\ \E b \in SeqToSet(bees[t]) :
                               /\ insect'[b].health = insect[b].health - n
                               /\ \A c \in BeeIds \ {b} : insect'[c] = insect[c]
                         /\ n = 0 => \A b \in BeeIds : insect'[b] = insect[b]]_vars

\* C26 witness: in the third turn of the wave whose second bee waits (it is
\* still in the hive), a MegaThrower has thrown its last leaf with damage 0,
\* after a throw with damage 1, next to an ant, that has cost the first bee
\* one of its health.
C26_Witness ==
    /\ pc = "ants" /\ actLog # <<>> /\ turn_number = SlowWave.delay + 1
    /\ insect[SecondBee].place = SlowWave.place
    /\ insect[FirstBee].health = SlowWave.bee_health - 1
    /\ LET a == actLog[Len(actLog)]
       IN  /\ insect[a].cls = "MegaThrower"
           /\ insect[a].damage = 0 /\ insect[a].ammo = 0

\* C27: a SuperThrower that acts with health exactly 1 gains one leaf before
\* it throws, and none at any other health: with health 1 and ammunition 1
\* or more a throw leaves its ammunition as it was and the thrower in its
\* place with its health; with health 1 and no target its ammunition grows
\* by 1; at any other health a throw takes one leaf and no target leaves the
\* ammunition as it was.
C27_SuperThrowerRegains ==
    [][\A a \in CopyIds :
          (AntActing(a) /\ insect[a].cls = "SuperThrower") =>
             LET t == target_place(World, a)
             IN  IF insect[a].health = 1
                 THEN IF t = None
                      THEN insect'[a].ammo = insect[a].ammo + 1
                      ELSE /\ insect'[a].ammo = insect[a].ammo
                           /\ insect[a].ammo >= 1 =>
                                 /\ insect'[a].health = 1
                                 /\ insect'[a].place = insect[a].place
                                 /\ ant' = ant
                 ELSE IF t = None
                      THEN insect'[a].ammo = insect[a].ammo
                      ELSE insect'[a].ammo = insect[a].ammo - 1]_vars

\* C27 witness: a SuperThrower with health 1, made with one leaf, has acted
\* twice, without a target and then, a bee having come, with one: it has
\* killed a bee, has two leaves and is in its place.
C27_Witness ==
    /\ pc = "act" /\ actLog # <<>>
    /\ Occurrences(actLog, ActAnt) = 2 /\ actLog[Len(actLog)] = ActAnt
    /\ insect[ActAnt].cls = "SuperThrower"
    /\ insect[ActAnt].health = 1 /\ insect[ActAnt].ammo = 2
    /\ insect[ActAnt].place # None
    /\ \E b \in BeeIds : insect[b].health <= 0

\* the same in a game: a SuperThrower that a bee has stung has acted with
\* health 1 and killed a bee; it has a leaf left and is in its place.
SuperThrowerRegainsInAGame ==
    /\ pc = "ants" /\ actLog # <<>>
    /\ LET a == actLog[Len(actLog)]
       IN  /\ insect[a].cls = "SuperThrower"
           /\ insect[a].health = 1 /\ insect[a].ammo >= 1
           /\ insect[a].place # None
    /\ \E b \in BeeIds : insect[b].health <= 0

\* C28: within take_turn no insect acts while it is dead or in no place: the
\* ant whose act is about to run in the ants' loop, taken from the list made
\* when the loop began, has a place and health above 0, and so has the bee
\* whose act is about to run in the bees' loop.
C28_NoDeadOrUnplacedInsectActs ==
    /\ (pc = "ants" /\ antQueue # <<>>) =>
          /\ insect[Head(antQueue)].place # None
          /\ insect[Head(antQueue)].health > 0
    /\ (pc = "bees" /\ beeQueue # <<>>) =>
          /\ insect[Head(beeQueue)].place # None
          /\ insect[Head(beeQueue)].health > 0

\* C28 witness: in this turn an ant of the ants' list has acted and died (a
\* Thrower with its last leaf) and has killed a bee, another ant has acted
\* after it, and a bee is about to act.
C28_Witness ==
    /\ pc = "bees" /\ beeQueue # <<>>
    /\ Len(actLog) = 2
    /\ insect[actLog[1]].place = None /\ insect[actLog[1]].health <= 0
    /\ actLog[2] \in CopyIds
    /\ \E b \in BeeIds : insect[b].health <= 0 /\ insect[b].place = None

\* a take_turn that played its turn returns, no act having raised
TakeTurnReturns == pc = "bees" /\ beeQueue = <<>> /\ pc' = "idle"

\* C29: what take_turn returns is decided by the world as it is when the
\* call begins.  A call that begins with no bee at the queen's place and a
\* bee in some place plays the turn and, unless an act raises, returns
\* UNRESOLVED, also when by then no bee is left or a bee is at the queen's
\* place; a call that begins in such a world returns WIN or LOSS at once.
C29_OutcomeDecidedOnEntry ==
    [][/\ TakeTurnCalled =>
            IF take_turn_outcome(World) = "UNRESOLVED"
            THEN pc' = "ants"
            ELSE /\ pc' = "idle"
                 /\ result' = Result("take_turn", None, take_turn_outcome(World), NoError)
       /\ (pc \in {"ants", "bees"} /\ pc' = "idle" /\ result'.raised = NoError) =>
            /\ TakeTurnReturns
            /\ result' = Result("take_turn", None, "UNRESOLVED", NoError)]_vars

\* C29 witness: take_turn has returned LOSS at once, the call before it
\* having played the turn in which the bee reached the queen's place: one
\* turn was played, and this is the second call.
C29_Witness ==
    /\ pc = "idle" /\ turn_number = 2
    /\ result = Result("take_turn", None, "LOSS", NoError)
    /\ \E b \in BeeIds : insect[b].place = queen_place

\* take_turn has just returned UNRESOLVED from a turn in which a bee reached
\* the queen's place
UnresolvedWithBeeAtQueen ==
    /\ pc = "idle"
    /\ result = Result("take_turn", None, "UNRESOLVED", NoError)
    /\ take_turn_outcome(World) = "LOSS"

\* take_turn has just returned UNRESOLVED from a turn in which the last bee
\* was killed
UnresolvedWithNoBeeLeft ==
    /\ pc = "idle"
    /\ result = Result("take_turn", None, "UNRESOLVED", NoError)
    /\ take_turn_outcome(World) = "WIN"

\* take_turn has returned WIN at once, in the call after the turn in which
\* the last bee was killed
WinReturnedByTheNextCall ==
    /\ pc = "idle" /\ turn_number = 3
    /\ result = Result("take_turn", None, "WIN", NoError)

\* between calls, with a bee at the queen's place
Lost == pc = "idle" /\ Len(bees[queen_place]) > 0
\* between calls, with no bee in any place
Won == pc = "idle" /\ Len(GameState_bees(World)) = 0
BeesUntouched == bees' = bees /\ \A b \in BeeIds : insect'[b] = insect[b]

\* C30: the outcome is absorbing.  When take_turn returns LOSS a bee is at
\* the queen's place and when it returns WIN no place holds a bee; from then
\* on every call of place_ant, sacrifice_ant and take_turn leaves every bee
\* and every place's list of bees as they are, so the world stays lost or
\* won, and every take_turn called in it returns LOSS, respectively WIN.
C30_OutcomeIsAbsorbing ==
    [][/\ (result'.outcome = "LOSS" /\ pc' = "idle") => Lost'
       /\ (result'.outcome = "WIN" /\ pc' = "idle") => Won'
       /\ Lost => (Lost' /\ BeesUntouched)
       /\ Won => (Won' /\ BeesUntouched)
       /\ (Lost /\ TakeTurnCalled) =>
             result' = Result("take_turn", None, "LOSS", NoError)
       /\ (Won /\ TakeTurnCalled) =>
             result' = Result("take_turn", None, "WIN", NoError)]_vars

\* C30 witness: the third call of take_turn has returned LOSS.  The second
\* bee is still at the entrance, which it reached in the first turn and
\* where no ant ever stood, so only that turn was played and the second call
\* returned LOSS too; the one ant ever placed, a Harvester, has not produced,
\* so it was placed after that turn, in the lost world.
C30_Witness ==
    /\ pc = "idle" /\ turn_number = 3
    /\ result = Result("take_turn", None, "LOSS", NoError)
    /\ insect[FirstBee].place = queen_place
    /\ insect[SecondBee].place = 2
    /\ \E a \in CopyIds :
          /\ insect[a].cls = "Harvester" /\ insect[a].place = 3
          /\ food = StartingFood - insect[a].food_cost
          /\ \A c \in CopyIds \ {a} : insect[c] = Unborn

\* the ants whose fields a step changes
AntsChanged == {a \in Insects \ BeeIds : insect'[a] # insect[a]}

\* C31: a bee acts at most once in one take_turn: it is at most once among
\* the bees that have acted and those still to act, also when it has flown
\* to a place that comes later in GameState.places.  Its one act moves it
\* along at most one edge (it stays or is then in a destination of its
\* place) or stings one ant once, by its damage, never both; and within
\* take_turn nothing else moves a bee (an ant's leaf can only take it out of
\* its place).
C31_BeeActsOncePerTurn ==
    /\ [](pc \in {"ants", "bees"} =>
            \A b \in BeeIds : Occurrences(actLog, b) + Occurrences(beeQueue, b) <= 1)
    /\ [][\A b \in BeeIds :
            /\ (pc = "bees" /\ BeeActing(b)) =>
                  /\ insect'[b].place \in
                        {insect[b].place} \cup SeqToSet(destinations[insect[b].place])
                  /\ Cardinality(AntsChanged) <= 1
                  /\ \A a \in AntsChanged :
                        /\ insect'[b].place = insect[b].place
                        /\ a = ant[insect[b].place]
                        /\ insect'[a].health = insect[a].health - insect[b].damage
                  /\ \A o \in BeeIds \ {b} : insect'[o] = insect[o]
            /\ (pc \in {"ants", "bees"} /\ ~BeeActing(b)) =>
                  insect'[b].place \in {insect[b].place, None}]_vars

\* C31 witness: the first turn's bees' loop is over; the first bee, which
\* began at the entrance (place 2), has flown to place 3, later in
\* GameState.places, and has acted once.
C31_Witness ==
    /\ pc = "bees" /\ beeQueue = <<>> /\ turn_number = 1
    /\ insect[FirstBee].place = 3
    /\ Occurrences(actLog, FirstBee) = 1
    /\ Occurrences(actLog, SecondBee) = 1

\* the throwers that are in a place, where both reads can be made
PlacedThrowers == {a \in CopyIds : isThrower(World, a) /\ insect[a].place # None}

\* C32: target_place and in_range_bees of a placed thrower agree: when
\* target_place is a place, every bee of that place is in in_range_bees; and
\* when in_range_bees is not empty, target_place is not None.
C32_TargetPlaceAgreesWithInRangeBees ==
    \A a \in PlacedThrowers :
        LET t == target_place(World, a)
            r == in_range_bees(World, a)
        IN  /\ t # None => SeqToSet(bees[t]) \subseteq r
            /\ r # {} => t # None

\* the first half alone: the bees of the place target_place returns are in
\* in_range_bees (it fails where the depth-first walk of in_range_bees first
\* comes to that place over a path longer than maximum_range)
TargetBeesAreInRangeBees ==
    \A a \in PlacedThrowers :
        target_place(World, a) # None =>
            SeqToSet(bees[target_place(World, a)]) \subseteq in_range_bees(World, a)

\* the second half alone: in_range_bees not empty means there is a target
\* (it fails where the only bees in range are in a plain Place, and where
\* the walk of target_place never comes to the place at all)
InRangeBeesHaveATarget ==
    \A a \in PlacedThrowers :
        in_range_bees(World, a) # {} => target_place(World, a) # None

\* What does hold: where every place is a ColonyPlace with at most one source
\* and no place is upstream of itself, both walks come to each place once,
\* at its hop distance, and the two reads agree.
AgreeOnALineOfColonyPlaces ==
    (\A p \in SearchPlaces :
        /\ isColony[p]
        /\ Len(sources[p]) <= 1
        /\ \A k \in 1..Len(sources[p]) : p \notin Upstream(sources[p][k]))
      => C32_TargetPlaceAgreesWithInRangeBees

\* the food the game starts with, every archetype's cost and every
\* production are 0 or more
NothingNegative ==
    /\ StartingFood >= 0
    /\ \A a \in ArchetypeIds :
          ant_archetypes[a].food_cost >= 0 /\ ant_archetypes[a].production >= 0

\* C33: the food the game starts with, every cost and every production
\* being 0 or more, the food is 0 or more in every state reached by calls of
\* place_ant, sacrifice_ant and take_turn, within the turn's loops too.
C33_FoodIsNeverNegative == NothingNegative /\ food >= 0

\* C33 witness: place_ant has spent the last of the food on an ant (the food
\* is 0), and two turns have been played since the game began.
C33_Witness ==
    /\ pc = "idle" /\ turn_number >= 2
    /\ food = 0
    /\ result.op = "place_ant" /\ result.ant # None /\ result.raised = NoError

====
